---------------------------- MODULE Spec2Model ----------------------------
(***************************************************************************)
(* wpf-gpu-raster: the PathBuilder front end of src/lib.rs and the         *)
(* rasterize_to_tri_strip pipeline it drives.                              *)
(*                                                                         *)
(* Numbers.  An f32 input coordinate is modelled exactly, as an integer    *)
(* count of tenths of a pixel (10.0 is 100, 39.6 is 396).  On the inputs   *)
(* used here every f32 operation of lib.rs is exact or rounds to the same  *)
(* integer, so (v - 0.5) * 16.0 is the rational 8 * (v - 5) / 5.  A POINT  *)
(* is a pair of 28.4 fixed-point integers.  Clip rectangles are integer    *)
(* pixels.                                                                 *)
(***************************************************************************)
EXTENDS Integers, Sequences, FiniteSets, TLC

VARIABLES
    points,          \* PathBuilder.points : DynArray<POINT>
    types,           \* PathBuilder.types : DynArray<BYTE>
    initial_point,   \* PathBuilder.initial_point : Option<MilPoint2F>, <<>> is None
    in_shape,        \* PathBuilder.in_shape
    fill_mode,       \* PathBuilder.fill_mode
    outside_bounds,  \* PathBuilder.outside_bounds : Option<CMILSurfaceRect>
    need_inside,     \* PathBuilder.need_inside
    valid_range,     \* PathBuilder.valid_range
    call,            \* the last call: [op, args], args kept for rasterize_to_tri_strip only
    ret,             \* what the last call returned (<<>> for a call returning ())
    engine,          \* the device and vertex builder the last call created, <<>> if none
    bad_supplied,    \* history: some coordinate passed to a drawing call was out of range
    added,           \* history: how many points add_point has pushed so far
    only_starts,     \* history: every call so far was a move_to, a close, a line_to that
                     \* found no pending start, or a query (rasterize, get_path)
    script           \* Some(the calls a test body still has to make); None in a free session

bvars == <<points, types, initial_point, in_shape, fill_mode, outside_bounds,
           need_inside, valid_range>>
vars == <<points, types, initial_point, in_shape, fill_mode, outside_bounds,
          need_inside, valid_range, call, ret, engine, bad_supplied, added,
          only_starts, script>>

(***************************************************************************)
(* Bounds of the model.                                                    *)
(***************************************************************************)
MaxPoints == 4

(***************************************************************************)
(* types.rs : path point tags (a BYTE) and the close-subpath flag.         *)
(***************************************************************************)
PathPointTypeStart == 0
PathPointTypeLine == 1
PathPointTypeBezier == 3
PathPointTypeCloseSubpath == 128

\* b ^ PathPointTypeCloseSubpath on a BYTE: the flag toggled instead of set
XorCloseSubpath(b) == IF b >= PathPointTypeCloseSubpath THEN b - PathPointTypeCloseSubpath ELSE b + PathPointTypeCloseSubpath

\* b | PathPointTypeCloseSubpath on a BYTE
OrCloseSubpath(b) == IF b >= PathPointTypeCloseSubpath THEN b ELSE b + PathPointTypeCloseSubpath

\* the tag of a type byte with the close flag masked off
TypeTag(b) == b % PathPointTypeCloseSubpath

IsClosed(b) == b >= PathPointTypeCloseSubpath

EvenOdd == "EvenOdd"
Winding == "Winding"

(***************************************************************************)
(* Option<T> as a sequence of at most one element.                         *)
(***************************************************************************)
None == <<>>
Some(v) == <<v>>
MilPoint2F(x, y) == [X |-> x, Y |-> y]
POINT(x, y) == [x |-> x, y |-> y]
CMILSurfaceRect(l, t, r, b) == [left |-> l, top |-> t, right |-> r, bottom |-> b]

(***************************************************************************)
(* add_point: pixel corner to pixel centre, scale into 28.4, validate      *)
(* before rounding, round, push.                                           *)
(***************************************************************************)
\* the largest magnitude of a 28.4 coordinate the rasterizer accepts
FixedRangeMax == 134217728

\* the scaling without the half pixel offset: v * 16
Scaled5_corner(v) == 8 * v

\* numerator, over 5, of (v - 0.5) * 16.0 for v given in tenths
Scaled5(v) == 8 * (v - 5)

\* aarasterizer::CheckValidRange28_4 on one scaled coordinate
InRange28_4(v) ==
    /\ Scaled5(v) <= 5 * FixedRangeMax
    /\ Scaled5(v) >= -(5 * FixedRangeMax)

CheckValidRange28_4(x, y) == InRange28_4(x) /\ InRange28_4(y)

\* real::CFloatFPU::Round of the scaled coordinate: the nearest integer (no input
\* here scales to a tie: the denominator is 5).
CFloatFPU_Round(v) == (Scaled5(v) + 2) \div 5

\* the point add_point pushes for (x, y)
Converted(x, y) == POINT(CFloatFPU_Round(x), CFloatFPU_Round(y))

\* add_point with self.valid_range = CheckValidRange28_4(x, y): the latch forgotten
add_point_unlatched(st, x, y) ==
    [points |-> Append(st.points, Converted(x, y)),
     valid_range |-> CheckValidRange28_4(x, y)]

\* add_point on the pair st = [points, valid_range]
add_point(st, x, y) ==
    [points |-> Append(st.points, Converted(x, y)),
     valid_range |-> st.valid_range /\ CheckValidRange28_4(x, y)]

BuilderPV == [points |-> points, valid_range |-> valid_range]

Unit == <<>>
Call(op, args) == [op |-> op, args |-> args]


(***************************************************************************)
(* PathBuilder::new                                                        *)
(***************************************************************************)
PathBuilder_new ==
    /\ points = <<>>
    /\ types = <<>>
    /\ initial_point = None
    /\ in_shape = FALSE
    /\ fill_mode = EvenOdd
    /\ outside_bounds = None
    /\ need_inside = TRUE
    /\ valid_range = TRUE

(***************************************************************************)
(* The drawing calls.  Each is the whole method: what it pushes, the flags *)
(* it sets, and the record of the call.                                    *)
(***************************************************************************)
\* a call returning (): the caller holds no result and no engine object is alive;
\* the record keeps which method ran, not its arguments
ReturnsUnit(op) ==
    /\ call' = Call(op, <<>>)
    /\ ret' = Unit
    /\ engine' = None
    /\ added' = added + (Len(points') - Len(points))

\* line_to that treats its own point as a start it may draw at once
line_to_eager(x, y) ==
    /\ IF initial_point # None
       THEN LET ip == initial_point[1]
                t0 == IF ~in_shape THEN Append(types, PathPointTypeStart) ELSE types
                s0 == IF ~in_shape THEN add_point(BuilderPV, ip.X, ip.Y) ELSE BuilderPV
                s1 == add_point(s0, x, y)
            IN  /\ types' = Append(t0, PathPointTypeLine)
                /\ points' = s1.points
                /\ valid_range' = s1.valid_range
                /\ in_shape' = TRUE
                /\ initial_point' = initial_point
       ELSE LET s1 == add_point(BuilderPV, x, y)
            IN  /\ initial_point' = Some(MilPoint2F(x, y))
                /\ types' = Append(types, PathPointTypeStart)
                /\ points' = s1.points
                /\ valid_range' = s1.valid_range
                /\ in_shape' = TRUE
    /\ UNCHANGED <<fill_mode, outside_bounds, need_inside>>
    /\ bad_supplied' = (bad_supplied \/ ~CheckValidRange28_4(x, y))
    /\ only_starts' = (only_starts /\ initial_point = None)
    /\ ReturnsUnit("line_to")

line_to(x, y) ==
    /\ IF initial_point # None
       THEN LET ip == initial_point[1]
                t0 == IF ~in_shape THEN Append(types, PathPointTypeStart) ELSE types
                s0 == IF ~in_shape THEN add_point(BuilderPV, ip.X, ip.Y) ELSE BuilderPV
                s1 == add_point(s0, x, y)
            IN  /\ types' = Append(t0, PathPointTypeLine)
                /\ points' = s1.points
                /\ valid_range' = s1.valid_range
                /\ in_shape' = TRUE
                /\ initial_point' = initial_point
       ELSE /\ initial_point' = Some(MilPoint2F(x, y))
            /\ UNCHANGED <<points, types, in_shape, valid_range>>
    /\ UNCHANGED <<fill_mode, outside_bounds, need_inside>>
    /\ bad_supplied' = (bad_supplied \/ ~CheckValidRange28_4(x, y))
    /\ only_starts' = (only_starts /\ initial_point = None)
    /\ ReturnsUnit("line_to")

\* move_to that pushes the start it is given instead of keeping it pending
move_to_eager(x, y) ==
    LET s1 == add_point(BuilderPV, x, y)
    IN  /\ in_shape' = TRUE
        /\ initial_point' = Some(MilPoint2F(x, y))
        /\ types' = Append(types, PathPointTypeStart)
        /\ points' = s1.points
        /\ valid_range' = s1.valid_range
        /\ UNCHANGED <<fill_mode, outside_bounds, need_inside>>
        /\ bad_supplied' = (bad_supplied \/ ~CheckValidRange28_4(x, y))
        /\ UNCHANGED only_starts
        /\ ReturnsUnit("move_to")

move_to(x, y) ==
    /\ in_shape' = FALSE
    /\ initial_point' = Some(MilPoint2F(x, y))
    /\ UNCHANGED <<points, types, valid_range, fill_mode, outside_bounds, need_inside>>
    /\ bad_supplied' = (bad_supplied \/ ~CheckValidRange28_4(x, y))
    /\ UNCHANGED only_starts
    /\ ReturnsUnit("move_to")

\* curve_to whose implicit start is the end point instead of the first control point
curve_to_body_from_end(c1x, c1y, c2x, c2y, x, y) ==
    LET ip == IF initial_point # None THEN initial_point[1] ELSE MilPoint2F(x, y)
        t0 == IF ~in_shape THEN Append(types, PathPointTypeStart) ELSE types
        s0 == IF ~in_shape THEN add_point(BuilderPV, ip.X, ip.Y) ELSE BuilderPV
        s1 == add_point(s0, c1x, c1y)
        s2 == add_point(s1, c2x, c2y)
        s3 == add_point(s2, x, y)
    IN  /\ types' = Append(t0, PathPointTypeBezier)
        /\ points' = s3.points
        /\ valid_range' = s3.valid_range
        /\ initial_point' = IF ~in_shape THEN Some(ip) ELSE initial_point
        /\ in_shape' = TRUE
        /\ UNCHANGED <<fill_mode, outside_bounds, need_inside>>

\* the body of curve_to: shared with quad_to, which ends by calling it
curve_to_body(c1x, c1y, c2x, c2y, x, y) ==
    LET ip == IF initial_point # None THEN initial_point[1] ELSE MilPoint2F(c1x, c1y)
        t0 == IF ~in_shape THEN Append(types, PathPointTypeStart) ELSE types
        s0 == IF ~in_shape THEN add_point(BuilderPV, ip.X, ip.Y) ELSE BuilderPV
        s1 == add_point(s0, c1x, c1y)
        s2 == add_point(s1, c2x, c2y)
        s3 == add_point(s2, x, y)
    IN  /\ types' = Append(t0, PathPointTypeBezier)
        /\ points' = s3.points
        /\ valid_range' = s3.valid_range
        /\ initial_point' = IF ~in_shape THEN Some(ip) ELSE initial_point
        /\ in_shape' = TRUE
        /\ UNCHANGED <<fill_mode, outside_bounds, need_inside>>

curve_to(c1x, c1y, c2x, c2y, x, y) ==
    /\ curve_to_body(c1x, c1y, c2x, c2y, x, y)
    /\ bad_supplied' = (bad_supplied \/ ~CheckValidRange28_4(c1x, c1y)
                          \/ ~CheckValidRange28_4(c2x, c2y) \/ ~CheckValidRange28_4(x, y))
    /\ only_starts' = FALSE
    /\ ReturnsUnit("curve_to")

\* (2./3.) * d, exact on the multiples of 3 the model passes
TwoThirds(d) == (2 * d) \div 3

quad_to(cx, cy, x, y) ==
    LET c0 == IF initial_point # None THEN initial_point[1] ELSE MilPoint2F(cx, cy)
        c1x == c0.X + TwoThirds(cx - c0.X)
        c1y == c0.Y + TwoThirds(cx - c0.Y)
        c2x == x + TwoThirds(cx - x)
        c2y == y + TwoThirds(cy - y)
    IN  /\ curve_to_body(c1x, c1y, c2x, c2y, x, y)
        /\ bad_supplied' = (bad_supplied \/ ~CheckValidRange28_4(cx, cy)
                              \/ ~CheckValidRange28_4(x, y))
        /\ only_starts' = FALSE
        /\ ReturnsUnit("quad_to")

\* if let Some(last) = self.types.last_mut() { *last |= PathPointTypeCloseSubpath }
close_last(ts) ==
    IF ts = <<>> THEN ts
    ELSE [ts EXCEPT ![Len(ts)] = OrCloseSubpath(ts[Len(ts)])]

\* close that keeps the start point of the subpath it closes
close_keeping_start ==
    /\ types' = close_last(types)
    /\ in_shape' = FALSE
    /\ UNCHANGED initial_point
    /\ UNCHANGED <<points, valid_range, fill_mode, outside_bounds, need_inside>>
    /\ UNCHANGED <<bad_supplied, only_starts>>
    /\ ReturnsUnit("close")

close ==
    /\ types' = close_last(types)
    /\ in_shape' = FALSE
    /\ initial_point' = None
    /\ UNCHANGED <<points, valid_range, fill_mode, outside_bounds, need_inside>>
    /\ UNCHANGED <<bad_supplied, only_starts>>
    /\ ReturnsUnit("close")

set_fill_mode(fm) ==
    /\ fill_mode' = fm
    /\ UNCHANGED <<points, types, initial_point, in_shape, valid_range,
                   outside_bounds, need_inside>>
    /\ UNCHANGED bad_supplied
    /\ only_starts' = FALSE
    /\ ReturnsUnit("set_fill_mode")

\* set_outside_bounds that stores the rectangle and drops need_inside
set_outside_bounds_bounds_only(ob, ni) ==
    /\ outside_bounds' = IF ob = None THEN None
                         ELSE Some(CMILSurfaceRect(ob[1][1], ob[1][2], ob[1][3], ob[1][4]))
    /\ UNCHANGED need_inside
    /\ UNCHANGED <<points, types, initial_point, in_shape, valid_range, fill_mode>>
    /\ UNCHANGED bad_supplied
    /\ only_starts' = FALSE
    /\ ReturnsUnit("set_outside_bounds")

\* ob is Option<(i32, i32, i32, i32)>
set_outside_bounds(ob, ni) ==
    /\ outside_bounds' = IF ob = None THEN None
                         ELSE Some(CMILSurfaceRect(ob[1][1], ob[1][2], ob[1][3], ob[1][4]))
    /\ need_inside' = ni
    /\ UNCHANGED <<points, types, initial_point, in_shape, valid_range, fill_mode>>
    /\ UNCHANGED bad_supplied
    /\ only_starts' = FALSE
    /\ ReturnsUnit("set_outside_bounds")

\* get_path that takes the points and leaves the types behind
get_path_leaving_types ==
    /\ IF valid_range /\ points # <<>> /\ types # <<>>
       THEN /\ points' = <<>>
            /\ UNCHANGED types
            /\ ret' = Some([fill_mode |-> fill_mode, points |-> points, types |-> types])
       ELSE /\ UNCHANGED <<points, types>>
            /\ ret' = None
    /\ call' = Call("get_path", <<>>)
    /\ engine' = None
    /\ UNCHANGED <<added, only_starts>>
    /\ UNCHANGED <<initial_point, in_shape, valid_range, fill_mode, outside_bounds,
                   need_inside>>
    /\ UNCHANGED bad_supplied

\* an OutputPath that does not carry the fill mode of the builder
OutputPath_even_odd(fm, ps, ts) == [fill_mode |-> EvenOdd, points |-> ps, types |-> ts]

OutputPath(fm, ps, ts) == [fill_mode |-> fm, points |-> ps, types |-> ts]

get_path ==
    /\ IF valid_range /\ points # <<>> /\ types # <<>>
       THEN /\ points' = <<>>
            /\ types' = <<>>
            /\ ret' = Some(OutputPath(fill_mode, points, types))
       ELSE /\ UNCHANGED <<points, types>>
            /\ ret' = None
    /\ call' = Call("get_path", <<>>)
    /\ engine' = None
    /\ UNCHANGED <<added, only_starts>>
    /\ UNCHANGED <<initial_point, in_shape, valid_range, fill_mode, outside_bounds,
                   need_inside>>
    /\ UNCHANGED bad_supplied


(***************************************************************************)
(* The scan-conversion engine (aarasterizer, hwrasterizer, aacoverage,     *)
(* hwvertexbuffer, bezier).  Edge extraction, the subpixel sweep, the fill *)
(* rule, the outside-bounds composition and the vertex builder.            *)
(***************************************************************************)
\* subpixel rows per output pixel row
SubpixelRows == 16

Max(a, b) == IF a >= b THEN a ELSE b
Min(a, b) == IF a <= b THEN a ELSE b

Edge(p, q) == [x0 |-> p.x, y0 |-> p.y, x1 |-> q.x, y1 |-> q.y]

\* curve flattener: one subdivision of the cubic at t = 1/2, rounded to 28.4
BezierMid(a, b, c, d) ==
    POINT((a.x + 3 * b.x + 3 * c.x + d.x + 4) \div 8,
          (a.y + 3 * b.y + 3 * c.y + d.y + 4) \div 8)

FlattenBezier(a, b, c, d) ==
    LET m == BezierMid(a, b, c, d) IN <<Edge(a, m), Edge(m, d)>>

\* the edge that closes a subpath, explicitly or implicitly
ClosingEdge(start, cur) == IF start = None THEN <<>> ELSE <<Edge(cur, start[1])>>

\* edge extractor: walks types and points; every subpath is closed for filling
RECURSIVE ExtractEdges(_, _, _, _, _)
ExtractEdges(ts, ps, start, cur, acc) ==
    IF ts = <<>> THEN acc \o ClosingEdge(start, cur)
    ELSE LET t == Head(ts)
             tag == TypeTag(t)
         IN  IF tag = PathPointTypeStart \/ start = None
             THEN ExtractEdges(Tail(ts), Tail(ps), Some(ps[1]), ps[1],
                               acc \o ClosingEdge(start, cur))
             ELSE LET n == IF tag = PathPointTypeBezier THEN 3 ELSE 1
                      segs == IF tag = PathPointTypeBezier
                               THEN FlattenBezier(cur, ps[1], ps[2], ps[3])
                               ELSE <<Edge(cur, ps[1])>>
                      last == ps[n]
                      rest == SubSeq(ps, n + 1, Len(ps))
                  IN  IF IsClosed(t)
                      THEN ExtractEdges(Tail(ts), rest, start, start[1],
                                        acc \o segs \o ClosingEdge(start, last))
                      ELSE ExtractEdges(Tail(ts), rest, start, last, acc \o segs)

\* edges with zero vertical extent are dropped
PathEdges(ts, ps) ==
    SelectSeq(ExtractEdges(ts, ps, None, POINT(0, 0), <<>>), LAMBDA e : e.y0 # e.y1)

\* +1 for an edge running down, -1 for one running up
EdgeSign(e) == IF e.y1 > e.y0 THEN 1 ELSE -1

\* a / b <= c / d for b, d > 0, by continued fractions: exact at any magnitude,
\* with no product that could leave the integer width
RECURSIVE FracLeq(_, _, _, _)
FracLeq(a, b, c, d) ==
    LET qa == a \div b
        qc == c \div d
        ra == a % b
        rc == c % d
    IN  IF qa # qc THEN qa < qc
        ELSE IF ra = 0 THEN TRUE
        ELSE IF rc = 0 THEN FALSE
        ELSE FracLeq(d, rc, b, ra)

\* the edge is active on subpixel row Y and its x-intercept there,
\* xa + (xb - xa) * (Y - ya) / (yb - ya), is at or left of X
CrossesLeftOf(e, X, Y) ==
    LET xa == IF e.y0 < e.y1 THEN e.x0 ELSE e.x1
        ya == Min(e.y0, e.y1)
        xb == IF e.y0 < e.y1 THEN e.x1 ELSE e.x0
        yb == Max(e.y0, e.y1)
    IN  /\ ya <= Y
        /\ Y < yb
        /\ IF Y = ya THEN xa <= X
           ELSE FracLeq(xb - xa, yb - ya, X - xa, Y - ya)

RECURSIVE SumSigns(_, _, _, _)
SumSigns(edges, X, Y, signed) ==
    IF edges = <<>> THEN 0
    ELSE (IF CrossesLeftOf(Head(edges), X, Y)
          THEN (IF signed THEN EdgeSign(Head(edges)) ELSE 1)
          ELSE 0) + SumSigns(Tail(edges), X, Y, signed)

\* fill rule: Alternate toggles at each crossing, Winding keeps a signed count
Inside(mil, edges, X, Y) ==
    IF mil = "Alternate"
    THEN SumSigns(edges, X, Y, FALSE) % 2 = 1
    ELSE SumSigns(edges, X, Y, TRUE) # 0

\* pixel coverage in sixteenths: the subpixel rows of pixel row j inside at column i
Coverage(mil, edges, i, j) ==
    Cardinality({r \in 0 .. SubpixelRows - 1 :
                    Inside(mil, edges, SubpixelRows * i, SubpixelRows * j + r)})

OutputVertex(x, y, c) == [x |-> x, y |-> y, coverage |-> c]

\* a run of pixels i0 .. i1 of row j with the same coverage is kept when it is
\* partial, when it is full and the inside is needed, or when it is empty and lies
\* in the outside bounds
KeepRun(c, i0, i1, j, ob, ni) ==
    IF c = 0 THEN /\ ob # None
                  /\ ob[1].left <= i0 /\ i1 < ob[1].right
                  /\ ob[1].top <= j /\ j < ob[1].bottom
    ELSE IF c = SubpixelRows THEN ni
    ELSE TRUE

RunVertices(c, i0, i1, j, ob, ni) ==
    IF KeepRun(c, i0, i1, j, ob, ni)
    THEN <<OutputVertex(i0, j, c), OutputVertex(i1 + 1, j, c)>>
    ELSE <<>>

\* the coverages of pixels i .. last of row j, in order
RECURSIVE RowCoverage(_, _, _, _, _)
RowCoverage(mil, edges, i, last, j) ==
    IF i > last THEN <<>>
    ELSE <<Coverage(mil, edges, i, j)>> \o RowCoverage(mil, edges, i + 1, last, j)

\* adjacent pixels of a row with identical coverage merge into one run; cov[k] is
\* the coverage of pixel x + k - 1, and the run under way started at pixel x + k0 - 1
RECURSIVE RowVertices(_, _, _, _, _, _, _)
RowVertices(cov, k0, k, x, j, ob, ni) ==
    IF k > Len(cov) THEN <<>>
    ELSE IF k < Len(cov) /\ cov[k + 1] = cov[k0]
         THEN RowVertices(cov, k0, k + 1, x, j, ob, ni)
         ELSE RunVertices(cov[k0], x + k0 - 1, x + k - 1, j, ob, ni)
              \o RowVertices(cov, k + 1, k + 1, x, j, ob, ni)

RECURSIVE Rows(_, _, _, _, _, _, _, _)
Rows(mil, edges, x, width, j, bottom, ob, ni) ==
    IF j >= bottom \/ width <= 0 THEN <<>>
    ELSE RowVertices(RowCoverage(mil, edges, x, x + width - 1, j), 1, 1, x, j, ob, ni)
         \o Rows(mil, edges, x, width, j + 1, bottom, ob, ni)

\* Setup, SetOutsideBounds, BeginBuilding, SendGeometry, FlushTryGetVertexBuffer:
\* what the output sink holds after the flush
SendGeometry(mil, ts, ps, clipRect, ob, ni) ==
    Rows(mil, PathEdges(ts, ps), clipRect.X, clipRect.Width, clipRect.Y,
         clipRect.Y + clipRect.Height, ob, ni)

(***************************************************************************)
(* rasterize_to_tri_strip (the free function) and the method over it.      *)
(***************************************************************************)
\* every fill mode mapped to Alternate
MilFillMode_alternate(fm) == "Alternate"

MilFillMode(fm) == IF fm = EvenOdd THEN "Alternate" ELSE "Winding"

ClipRect(x, y, w, h) == [X |-> x, Y |-> y, Width |-> w, Height |-> h]

VertexBuilderBounds(clip_x, clip_y, clip_width, clip_height, need_outside) ==
    IF need_outside
    THEN Some(CMILSurfaceRect(clip_x, clip_y, clip_x + clip_width, clip_y + clip_height))
    ELSE None

\* CHwRasterizer::new, CD3DDeviceLevel1::new and CHwVertexBufferBuilder::Create: the
\* objects of one call, the device's output sink empty
NewEngine(clipRect) ==
    [clipRect |-> clipRect, fill_mode |-> "unset", outside_bounds |-> None,
     need_inside |-> TRUE, building |-> FALSE, buffer |-> <<>>, output |-> <<>>,
     steps |-> <<"new">>]

CHwRasterizer_Setup(e, mil) == [e EXCEPT !.fill_mode = mil, !.steps = Append(@, "Setup")]

CHwVertexBufferBuilder_SetOutsideBounds(e, ob, ni) ==
    [e EXCEPT !.outside_bounds = ob, !.need_inside = ni,
              !.steps = Append(@, "SetOutsideBounds")]

CHwVertexBufferBuilder_BeginBuilding(e) ==
    [e EXCEPT !.building = TRUE, !.steps = Append(@, "BeginBuilding")]

\* the vertex builder buffers the geometry it is sent once building has begun
CHwRasterizer_SendGeometry(e, ts, ps) ==
    [e EXCEPT !.buffer = IF e.building
                         THEN @ \o SendGeometry(e.fill_mode, ts, ps, e.clipRect,
                                                e.outside_bounds, e.need_inside)
                         ELSE @,
              !.steps = Append(@, "SendGeometry")]

\* the flush hands the buffered vertices to the device's output sink
CHwVertexBufferBuilder_FlushTryGetVertexBuffer(e) ==
    [e EXCEPT !.output = @ \o e.buffer, !.buffer = <<>>,
              !.steps = Append(@, "FlushTryGetVertexBuffer")]

\* device.output read without being replaced: the sink keeps what it collected
DrainOutput_keeping(e) == [e EXCEPT !.steps = Append(@, "drain")]

\* device.output.replace(Vec::new()): the sink is left empty
DrainOutput(e) == [e EXCEPT !.output = <<>>, !.steps = Append(@, "drain")]

rasterize_to_tri_strip(fm, ts, ps, clip_x, clip_y, clip_width, clip_height, ni, need_outside) ==
    LET clipRect == ClipRect(clip_x, clip_y, clip_width, clip_height)
        mil == MilFillMode(fm)
        ob == VertexBuilderBounds(clip_x, clip_y, clip_width, clip_height, need_outside)
        e1 == CHwRasterizer_Setup(NewEngine(clipRect), mil)
        e2 == CHwVertexBufferBuilder_SetOutsideBounds(e1, ob, ni)
        e3 == CHwVertexBufferBuilder_BeginBuilding(e2)
        e4 == CHwRasterizer_SendGeometry(e3, ts, ps)
        e5 == CHwVertexBufferBuilder_FlushTryGetVertexBuffer(e4)
    IN  [output |-> e5.output, engine |-> Some(DrainOutput(e5))]

\* the intersection with the right and bottom coordinates passed as width and height
EffectiveRect_corner_as_size(ob, clip_x, clip_y, clip_width, clip_height) ==
    IF ob # None
    THEN LET x0 == Max(clip_x, ob[1].left)
             y0 == Max(clip_y, ob[1].top)
             x1 == Min(clip_x + clip_width, ob[1].right)
             y1 == Min(clip_y + clip_height, ob[1].bottom)
         IN  [x |-> x0, y |-> y0, width |-> x1, height |-> y1, need_outside |-> TRUE]
    ELSE [x |-> clip_x, y |-> clip_y, width |-> clip_width, height |-> clip_height,
          need_outside |-> FALSE]

\* the clip rectangle passed on without intersecting it with the outside bounds
EffectiveRect_clip_only(ob, clip_x, clip_y, clip_width, clip_height) ==
    [x |-> clip_x, y |-> clip_y, width |-> clip_width, height |-> clip_height,
     need_outside |-> ob # None]

\* the intersection with the right and bottom of the outside bounds left unclipped
EffectiveRect_unclipped_far(ob, clip_x, clip_y, clip_width, clip_height) ==
    IF ob # None
    THEN LET x0 == Max(clip_x, ob[1].left)
             y0 == Max(clip_y, ob[1].top)
             x1 == ob[1].right
             y1 == ob[1].bottom
         IN  [x |-> x0, y |-> y0, width |-> x1 - x0, height |-> y1 - y0,
              need_outside |-> TRUE]
    ELSE [x |-> clip_x, y |-> clip_y, width |-> clip_width, height |-> clip_height,
          need_outside |-> FALSE]

\* the (x, y, width, height, need_outside) tuple of the method
EffectiveRect(ob, clip_x, clip_y, clip_width, clip_height) ==
    IF ob # None
    THEN LET x0 == Max(clip_x, ob[1].left)
             y0 == Max(clip_y, ob[1].top)
             x1 == Min(clip_x + clip_width, ob[1].right)
             y1 == Min(clip_y + clip_height, ob[1].bottom)
         IN  [x |-> x0, y |-> y0, width |-> x1 - x0, height |-> y1 - y0,
              need_outside |-> TRUE]
    ELSE [x |-> clip_x, y |-> clip_y, width |-> clip_width, height |-> clip_height,
          need_outside |-> FALSE]

\* the method without its valid_range check
Rasterized_unchecked(valid, ob, ni, fm, ts, ps, clip_x, clip_y, clip_width, clip_height) ==
    LET r == EffectiveRect(ob, clip_x, clip_y, clip_width, clip_height)
    IN  rasterize_to_tri_strip(fm, ts, ps, r.x, r.y, r.width, r.height, ni,
                               r.need_outside)

\* PathBuilder::rasterize_to_tri_strip as a function of the builder's fields
Rasterized(valid, ob, ni, fm, ts, ps, clip_x, clip_y, clip_width, clip_height) ==
    IF ~valid
    THEN [output |-> <<>>, engine |-> None]
    ELSE LET r == EffectiveRect(ob, clip_x, clip_y, clip_width, clip_height)
         IN  rasterize_to_tri_strip(fm, ts, ps, r.x, r.y, r.width, r.height, ni,
                                    r.need_outside)

\* rasterize_to_tri_strip that takes the path out of the builder, as get_path does
PathBuilder_rasterize_taking(clip_x, clip_y, clip_width, clip_height) ==
    LET res == Rasterized(valid_range, outside_bounds, need_inside, fill_mode, types,
                          points, clip_x, clip_y, clip_width, clip_height)
    IN  /\ call' = Call("rasterize_to_tri_strip",
                        <<clip_x, clip_y, clip_width, clip_height>>)
        /\ ret' = res.output
        /\ engine' = res.engine
        /\ points' = <<>>
        /\ types' = <<>>
        /\ UNCHANGED <<initial_point, in_shape, fill_mode, outside_bounds, need_inside,
                       valid_range>>
        /\ UNCHANGED <<bad_supplied, added, only_starts>>

PathBuilder_rasterize_to_tri_strip(clip_x, clip_y, clip_width, clip_height) ==
    LET res == Rasterized(valid_range, outside_bounds, need_inside, fill_mode, types,
                          points, clip_x, clip_y, clip_width, clip_height)
    IN  /\ call' = Call("rasterize_to_tri_strip",
                        <<clip_x, clip_y, clip_width, clip_height>>)
        /\ ret' = res.output
        /\ engine' = res.engine
        /\ UNCHANGED bvars
        /\ UNCHANGED <<bad_supplied, added, only_starts>>


(***************************************************************************)
(* A free session: any call, with arguments from small sets.               *)
(***************************************************************************)
\* an f32 whose 28.4 image is out of range, as 8.872974e16 is in tests::range;
\* a multiple of 3 whose two thirds are out of range too
BigCoord == 129000000

PtA == MilPoint2F(0, 0)
PtB == MilPoint2F(21, 0)
PtC == MilPoint2F(21, 21)
PtBig == MilPoint2F(BigCoord, 0)

Pts == {PtA, PtC, PtBig}

\* (control 1, control 2, end) of the curve_to calls
CurveArgs == {<<PtB, PtB, PtC>>, <<PtBig, PtA, PtA>>, <<PtA, PtBig, PtA>>}

\* (control, end) of the quad_to calls
QuadArgs == {<<PtB, PtC>>, <<PtBig, PtA>>}

Clips == {<<0, 0, 2, 2>>, <<1, 1, 1, 1>>}

OutsideArgs == {<<None, TRUE>>, <<Some(<<0, 0, 1, 1>>), FALSE>>}

Free == script = None /\ UNCHANGED script

\* the session may still push n points
Room(n) == added + n <= MaxPoints

StartCost == IF in_shape THEN 0 ELSE 1

LineTo ==
    /\ Free
    /\ \E p \in Pts :
        /\ initial_point # None => Room(StartCost + 1)
        /\ line_to(p.X, p.Y)

MoveTo ==
    /\ Free
    /\ \E p \in Pts : move_to(p.X, p.Y)

CurveTo ==
    /\ Free
    /\ Room(StartCost + 3)
    /\ \E a \in CurveArgs : curve_to(a[1].X, a[1].Y, a[2].X, a[2].Y, a[3].X, a[3].Y)

QuadTo ==
    /\ Free
    /\ Room(StartCost + 3)
    /\ \E a \in QuadArgs : quad_to(a[1].X, a[1].Y, a[2].X, a[2].Y)

Close == Free /\ close

SetFillMode ==
    /\ Free
    /\ \E fm \in {EvenOdd, Winding} : set_fill_mode(fm)

SetOutsideBounds ==
    /\ Free
    /\ \E a \in OutsideArgs : set_outside_bounds(a[1], a[2])

Rasterize ==
    /\ Free
    /\ \E c \in Clips : PathBuilder_rasterize_to_tri_strip(c[1], c[2], c[3], c[4])

GetPath == Free /\ get_path

(***************************************************************************)
(* The bodies of the tests of lib.rs, on a 5 x 5 pixel surface: one call   *)
(* per step.                                                               *)
(***************************************************************************)
Op(op, a) == [op |-> op, a |-> a]
Mv(x, y) == Op("move_to", <<x, y>>)
Ln(x, y) == Op("line_to", <<x, y>>)
Cv(p, q, r) == Op("curve_to", <<p.X, p.Y, q.X, q.Y, r.X, r.Y>>)
Cl == Op("close", <<>>)
Fm(fm) == Op("set_fill_mode", <<fm>>)
Ob(r, ni) == Op("set_outside_bounds", <<Some(r), ni>>)
Ra(c) == Op("rasterize_to_tri_strip", c)

\* move_to, three line_to, close: the rectangle lo .. hi, as tests::fill_mode draws it
RectCalls(lo, hi) == <<Mv(lo, lo), Ln(hi, lo), Ln(hi, hi), Ln(lo, hi), Cl>>

TestClip == <<0, 0, 5, 5>>

InnerRects == {<<10, 30>>, <<10, 20>>, <<20, 30>>}

\* tests::fill_mode: two nested rectangles, then rasterize as EvenOdd or as Winding
FillModeTests ==
    {RectCalls(0, 40) \o RectCalls(r[1], r[2]) \o pre \o <<Ra(TestClip)>> :
        r \in InnerRects, pre \in {<<>>, <<Fm(Winding)>>}}

ClosingPairs ==
    {<<PtA, MilPoint2F(0, 30)>>, <<PtA, PtC>>, <<PtC, PtA>>, <<PtB, MilPoint2F(0, 30)>>}

\* tests::path_closing: a degenerate curve, close, the same curve again
PathClosingTests ==
    {<<Cv(pq[1], pq[1], pq[2]), Cl, Cv(pq[1], pq[1], pq[2]), Ra(TestClip)>> :
        pq \in ClosingPairs}

TestOutsideRects == {<<0, 0, 2, 2>>, <<1, 1, 3, 3>>, <<0, 0, 5, 5>>, <<-1, -1, 6, 6>>}

TestClips == {<<0, 0, 4, 4>>, <<2, 2, 2, 2>>, <<3, 3, 1, 1>>}

\* the self-intersecting quadrilateral of tests::outside
BowTie == <<Mv(0, 0), Ln(30, 0), Ln(0, 30), Ln(30, 30), Cl>>

\* tests::outside, outside_inside, outside_clipped: rasterize under one
\* outside-bounds rectangle, then under another
OutsideTests ==
    {BowTie \o <<Ob(r1, ni), Ra(c), Ob(r2, ni), Ra(c)>> :
        r1 \in TestOutsideRects, r2 \in TestOutsideRects, ni \in BOOLEAN, c \in TestClips}

\* bottom edges, in tenths of a pixel, of the rectangles of PartialCoverageTests:
\* 3.5 converts to the multiple of sixteen 48, the others to 40, 50 and 58
BottomEdges == {30, 35, 36, 41}

\* tests::partial_coverage_last_line: an open rectangle whose bottom edge lies
\* inside a pixel row; once on the 5 x 5 surface, once with the coordinates of the
\* test itself, rasterized over the two pixel rows around the bottom edge
PartialCoverageTests ==
    {<<Mv(10, 10), Ln(40, 10), Ln(40, b), Ln(10, b), Ra(TestClip)>> : b \in BottomEdges}
    \cup {<<Mv(100, 100), Ln(400, 100), Ln(400, 396), Ln(100, 396), Ra(<<38, 38, 2, 2>>)>>}

Tests == FillModeTests \cup PathClosingTests \cup OutsideTests \cup PartialCoverageTests

\* the next call of the test body
RunTest ==
    /\ script # None
    /\ script[1] # <<>>
    /\ script' = Some(Tail(script[1]))
    /\ LET c == Head(script[1])
       IN  \/ c.op = "move_to" /\ move_to(c.a[1], c.a[2])
           \/ c.op = "line_to" /\ line_to(c.a[1], c.a[2])
           \/ c.op = "curve_to" /\ curve_to(c.a[1], c.a[2], c.a[3], c.a[4], c.a[5], c.a[6])
           \/ c.op = "close" /\ close
           \/ c.op = "set_fill_mode" /\ set_fill_mode(c.a[1])
           \/ c.op = "set_outside_bounds" /\ set_outside_bounds(c.a[1], c.a[2])
           \/ /\ c.op = "rasterize_to_tri_strip"
              /\ PathBuilder_rasterize_to_tri_strip(c.a[1], c.a[2], c.a[3], c.a[4])

Init ==
    /\ PathBuilder_new
    /\ call = Call("new", <<>>)
    /\ ret = Unit
    /\ engine = None
    /\ bad_supplied = FALSE
    /\ added = 0
    /\ only_starts = TRUE
    /\ script \in {None} \cup {Some(t) : t \in Tests}

Next ==
    \/ LineTo
    \/ MoveTo
    \/ CurveTo
    \/ QuadTo
    \/ Close
    \/ SetFillMode
    \/ SetOutsideBounds
    \/ Rasterize
    \/ GetPath
    \/ RunTest

Spec == Init /\ [][Next]_vars

\* the test bodies alone
TestInit == Init /\ script # None

TestSpec == TestInit /\ [][RunTest]_vars


(***************************************************************************)
(* Properties.                                                             *)
(***************************************************************************)
IsRasterize == call.op = "rasterize_to_tri_strip"
IsGetPath == call.op = "get_path"

\* a stored 28.4 point inside the range CheckValidRange28_4 accepts
PointInRange(p) ==
    /\ p.x <= FixedRangeMax /\ p.x >= -FixedRangeMax
    /\ p.y <= FixedRangeMax /\ p.y >= -FixedRangeMax

BadPointInPath == \E i \in DOMAIN points : ~PointInRange(points[i])

\* C1, as stated, on a builder with no outside bounds: if any coordinate supplied
\* to move_to, line_to, curve_to or quad_to is out of the 28.4 range,
\* rasterize_to_tri_strip returns the empty array.
C1_AnySuppliedCoordinate ==
    (IsRasterize /\ bad_supplied /\ outside_bounds = None) => ret = <<>>

\* C1, amended: if any point the drawing calls have appended to points is out of
\* the 28.4 range, rasterize_to_tri_strip returns the empty array, whatever else the
\* path holds and wherever the bad point was appended.
C1_BadPointEmpties == (IsRasterize /\ BadPointInPath) => ret = <<>>

\* the bad point is not the last one appended, and the rasterizer has been called
C1_Witness ==
    /\ IsRasterize
    /\ Len(points) >= 3
    /\ BadPointInPath
    /\ PointInRange(points[Len(points)])

\* C2: rasterize_to_tri_strip leaves points, types and every other builder field
\* unchanged, and a call repeated at once with the same clip arguments returns the
\* same vertex array.
C2_Deterministic ==
    [][call'.op = "rasterize_to_tri_strip" =>
          /\ UNCHANGED bvars
          /\ (IsRasterize /\ call.args = call'.args) => ret' = ret]_vars

\* the rasterizer has returned geometry for a builder that still holds its path
C2_Witness ==
    /\ IsRasterize
    /\ ret # <<>>
    /\ points # <<>>
    /\ Len(types) >= 2

NoPendingStart == initial_point = None

\* the four points and two entries a curve_to appends when it opens a subpath at
\* its own first control point
CurveOpensSubpath ==
    /\ types' = types \o <<PathPointTypeStart, PathPointTypeBezier>>
    /\ Len(points') = Len(points) + 4
    /\ SubSeq(points', 1, Len(points)) = points
    /\ initial_point' # None
    /\ points'[Len(points) + 1] = Converted(initial_point'[1].X, initial_point'[1].Y)
    /\ points'[Len(points) + 2] = points'[Len(points) + 1]
    /\ in_shape'

\* C3, as stated: a line_to or curve_to issued with no pending start point appends
\* nothing to points or types.
C3_OnlyRecords ==
    [][(NoPendingStart /\ call'.op \in {"line_to", "curve_to"}) =>
          (points' = points /\ types' = types)]_vars

\* C3, amended: with no pending start point, line_to only records its coordinate as
\* the pending start and appends nothing; curve_to takes its first control point as
\* the start and draws at once: a Start and a Bezier entry, and four points of which
\* the first two are that control point.
C3_LineRecordsCurveDraws ==
    [][NoPendingStart =>
          /\ call'.op = "line_to" =>
                (points' = points /\ types' = types /\ initial_point' # None /\ ~in_shape')
          /\ call'.op = "curve_to" => CurveOpensSubpath]_vars

\* the first call of tests::path_closing, a curve_to on the new builder, has drawn
C3_Witness ==
    /\ call.op = "curve_to"
    /\ script # None
    /\ Len(script[1]) = 3
    /\ types = <<PathPointTypeStart, PathPointTypeBezier>>
    /\ Len(points) = 4
    /\ points[1] = points[2]

\* C4: as long as every call has been a move_to, a close or a line_to that found no
\* pending start, points and types are empty, rasterize_to_tri_strip returns the
\* empty array and get_path returns None.
C4_NoSegmentNoGeometry ==
    only_starts =>
        /\ points = <<>>
        /\ types = <<>>
        /\ IsRasterize => ret = <<>>
        /\ IsGetPath => ret = None

\* the rasterizer has been called on a builder that holds a pending start and no segment
C4_Witness ==
    /\ only_starts
    /\ IsRasterize
    /\ initial_point # None

\* curve_to(P, P, Q); close(); curve_to(P, P, Q) on a fresh builder, then rasterize:
\* each curve opens at P, so the stored points are P, P, P, Q twice
TwiceDegenerate ==
    /\ IsRasterize
    /\ outside_bounds = None
    /\ types = <<PathPointTypeStart, OrCloseSubpath(PathPointTypeBezier),
                 PathPointTypeStart, PathPointTypeBezier>>
    /\ Len(points) = 8
    /\ points[1] = points[2]
    /\ points[2] = points[3]
    /\ \A i \in 1..4 : points[i + 4] = points[i]

\* C5: close() leaves no pending start point and no open shape; the line_to or
\* curve_to that follows it is handled as on a fresh builder (line_to only records
\* its point, curve_to opens a new subpath at its own first control point and leaves
\* the closed subpath's entries as they are); and curve_to(P,P,P,Q); close();
\* curve_to(P,P,P,Q) rasterizes to the empty array.
C5_FreshAfterClose ==
    [][/\ call'.op = "close" => (initial_point' = None /\ ~in_shape')
       /\ (call.op = "close" /\ call'.op = "line_to") =>
             (points' = points /\ types' = types /\ initial_point' # None /\ ~in_shape')
       /\ (call.op = "close" /\ call'.op = "curve_to") => CurveOpensSubpath
       /\ TwiceDegenerate' => ret' = <<>>]_vars

\* the degenerate curve has been drawn, closed, drawn again and rasterized
C5_Witness ==
    /\ TwiceDegenerate
    /\ points[4] # points[1]
    /\ script = Some(<<>>)

\* C6: move_to changes only the pending start point and the in-shape flag; a pending
\* start that a move_to replaces or a close clears before any drawing call is not
\* appended to points, and after the close no start is pending.
C6_MoveToNeverDraws ==
    [][/\ call'.op = "move_to" =>
             /\ UNCHANGED <<points, types, valid_range>>
             /\ UNCHANGED <<fill_mode, outside_bounds, need_inside>>
             /\ initial_point' # None
             /\ ~in_shape'
       /\ (call'.op \in {"move_to", "close"} /\ initial_point # None /\ ~in_shape) =>
             /\ points' = points
             /\ call'.op = "close" => initial_point' = None]_vars

\* an out-of-range start replaced the pending start of a still valid, non-empty path
C6_Witness ==
    /\ call.op = "move_to"
    /\ Len(points) >= 2
    /\ initial_point = Some(PtBig)
    /\ valid_range

\* the intersection of the clip rectangle c = (x, y, width, height) with the rectangle r
IsectX(c, r) == IF c[1] > r.left THEN c[1] ELSE r.left
IsectY(c, r) == IF c[2] > r.top THEN c[2] ELSE r.top
IsectW(c, r) == (IF c[1] + c[3] < r.right THEN c[1] + c[3] ELSE r.right) - IsectX(c, r)
IsectH(c, r) == (IF c[2] + c[4] < r.bottom THEN c[2] + c[4] ELSE r.bottom) - IsectY(c, r)

\* C7: with outside bounds set, the engine's device clip rectangle is the intersection
\* of the clip rectangle and the outside bounds, and the vertex builder's outside
\* bounds are that same rectangle; with none set, the clip rectangle is passed
\* unchanged and the vertex builder gets no outside bounds.
C7_EngineRect ==
    (IsRasterize /\ valid_range) =>
        /\ engine # None
        /\ IF outside_bounds # None
           THEN LET c == call.args
                    r == outside_bounds[1]
                    x == IsectX(c, r)
                    y == IsectY(c, r)
                    w == IsectW(c, r)
                    h == IsectH(c, r)
                IN  /\ engine[1].clipRect = [X |-> x, Y |-> y, Width |-> w, Height |-> h]
                    /\ engine[1].outside_bounds =
                           Some([left |-> x, top |-> y, right |-> x + w, bottom |-> y + h])
           ELSE /\ engine[1].clipRect = [X |-> call.args[1], Y |-> call.args[2],
                                         Width |-> call.args[3], Height |-> call.args[4]]
                /\ engine[1].outside_bounds = None

\* the engine ran on a rectangle cut on the left by the clip and on the right by the
\* outside bounds
C7_Witness ==
    /\ IsRasterize
    /\ valid_range
    /\ outside_bounds # None
    /\ engine # None
    /\ engine[1].clipRect.X > outside_bounds[1].left
    /\ engine[1].clipRect.X + engine[1].clipRect.Width < call.args[1] + call.args[3]
    /\ engine[1].clipRect.Width > 0
    /\ ret # <<>>

RectOf(r) == CMILSurfaceRect(r[1], r[2], r[3], r[4])

\* what the call just made would have returned under the outside bounds r
OutputUnder(r) ==
    Rasterized(valid_range, Some(RectOf(r)), need_inside, fill_mode, types, points,
               call.args[1], call.args[2], call.args[3], call.args[4]).output

SameIsect(c, r1, r2) ==
    /\ IsectX(c, r1) = IsectX(c, r2)
    /\ IsectY(c, r1) = IsectY(c, r2)
    /\ IsectW(c, r1) = IsectW(c, r2)
    /\ IsectH(c, r1) = IsectH(c, r2)

\* C9, as stated: for a fixed valid path, fill mode, clip rectangle and need_inside =
\* false, two different outside-bounds rectangles never yield the same vertex array.
C9_AlwaysDiffers ==
    (IsRasterize /\ valid_range /\ outside_bounds # None /\ ~need_inside) =>
        \A r \in TestOutsideRects :
            RectOf(r) # outside_bounds[1] => OutputUnder(r) # ret

\* C9, amended: for a fixed path, fill mode, clip rectangle and need_inside, the
\* output depends on the outside bounds only through their intersection with the clip
\* rectangle: two rectangles with the same intersection yield the same vertex array.
C9_SameIntersectionSameOutput ==
    (IsRasterize /\ outside_bounds # None) =>
        \A r \in TestOutsideRects :
            SameIsect(call.args, outside_bounds[1], RectOf(r)) => OutputUnder(r) = ret

\* geometry was returned under outside bounds that another rectangle, with the same
\* intersection, would replace
C9_Witness ==
    /\ IsRasterize
    /\ valid_range
    /\ outside_bounds # None
    /\ ~need_inside
    /\ ret # <<>>
    /\ \E r \in TestOutsideRects :
          /\ RectOf(r) # outside_bounds[1]
          /\ SameIsect(call.args, outside_bounds[1], RectOf(r))

RectTypes ==
    <<PathPointTypeStart, PathPointTypeLine, PathPointTypeLine,
      OrCloseSubpath(PathPointTypeLine)>>

\* points[i .. i+3] is a rectangle drawn from its top left corner, rightwards first
IsRectAt(i) ==
    /\ points[i].y = points[i + 1].y
    /\ points[i + 1].x = points[i + 2].x
    /\ points[i + 2].y = points[i + 3].y
    /\ points[i + 3].x = points[i].x
    /\ points[i].x < points[i + 1].x
    /\ points[i].y < points[i + 2].y

\* two closed rectangles drawn in the same direction, the second inside the first,
\* have been rasterized
NestedRectangles ==
    /\ IsRasterize
    /\ outside_bounds = None
    /\ types = RectTypes \o RectTypes
    /\ Len(points) = 8
    /\ IsRectAt(1)
    /\ IsRectAt(5)
    /\ points[1].x < points[5].x /\ points[7].x < points[3].x
    /\ points[1].y < points[5].y /\ points[7].y < points[3].y

OtherFillMode == IF fill_mode = EvenOdd THEN Winding ELSE EvenOdd

\* C10: for two nested closed rectangles drawn in the same direction, every sample
\* inside the inner rectangle is outside under EvenOdd (mapped to Alternate) and inside
\* under Winding, and the array returned differs from the one the other fill mode
\* returns.
C10_FillModesDiffer ==
    NestedRectangles =>
        /\ \A X \in points[5].x .. (points[7].x - 1), Y \in points[5].y .. (points[7].y - 1) :
              /\ ~Inside(MilFillMode(EvenOdd), PathEdges(types, points), X, Y)
              /\ Inside(MilFillMode(Winding), PathEdges(types, points), X, Y)
        /\ ret # Rasterized(valid_range, outside_bounds, need_inside, OtherFillMode, types,
                            points, call.args[1], call.args[2], call.args[3],
                            call.args[4]).output

\* the nested rectangles have been rasterized as Winding
C10_Witness ==
    /\ NestedRectangles
    /\ fill_mode = Winding
    /\ ret # <<>>

\* an open rectangle drawn from its top left corner has been rasterized
OpenRectangle ==
    /\ IsRasterize
    /\ outside_bounds = None
    /\ types = <<PathPointTypeStart, PathPointTypeLine, PathPointTypeLine,
                 PathPointTypeLine>>
    /\ Len(points) = 4
    /\ IsRectAt(1)

\* the pixel row holding the bottom edge of the rectangle
BottomRow == points[3].y \div SubpixelRows

\* the clip columns whose sample lies between the left and right edges
ColumnsInRectangle ==
    {i \in call.args[1] .. call.args[1] + call.args[3] - 1 :
        points[1].x <= SubpixelRows * i /\ SubpixelRows * i < points[2].x}

\* C11: when the bottom edge of a rectangle converts to a 28.4 y that is not a
\* multiple of 16 (39.6 converts to 626), the pixel row holding that edge has some
\* but not all of its 16 subpixel rows inside, and the output has a vertex on that
\* row whose coverage is strictly between 0 and 1.
C11_PartialBottomRow ==
    /\ (OpenRectangle /\ call.args = <<38, 38, 2, 2>>) => points[3].y = 626
    /\ (/\ OpenRectangle
        /\ points[3].y % SubpixelRows # 0
        /\ points[1].y <= SubpixelRows * BottomRow
        /\ call.args[2] <= BottomRow
        /\ BottomRow < call.args[2] + call.args[4])
       => /\ ColumnsInRectangle # {}
          /\ \A i \in ColumnsInRectangle :
                LET c == Coverage(MilFillMode(fill_mode), PathEdges(types, points), i,
                                  BottomRow)
                IN  0 < c /\ c < SubpixelRows
          /\ \E k \in DOMAIN ret :
                /\ ret[k].y = BottomRow
                /\ 0 < ret[k].coverage
                /\ ret[k].coverage < SubpixelRows

\* the rectangle with its bottom edge at 39.6 has been rasterized
C11_Witness ==
    /\ OpenRectangle
    /\ points[3].y = 626
    /\ BottomRow = 39
    /\ ret # <<>>

\* C12: every rasterize_to_tri_strip call builds its own engine objects, starting
\* from an empty sink; the array returned is what the engine produced for this
\* call's path and rectangle and nothing else; and when the call returns the sink
\* and the vertex buffer are empty.
C12_OwnEngineEachCall ==
    (IsRasterize /\ valid_range) =>
        /\ engine # None
        /\ Head(engine[1].steps) = "new"
        /\ Cardinality({k \in DOMAIN engine[1].steps : engine[1].steps[k] = "new"}) = 1
        /\ ret = SendGeometry(MilFillMode(fill_mode), types, points, engine[1].clipRect,
                              engine[1].outside_bounds, need_inside)
        /\ engine[1].output = <<>>
        /\ engine[1].buffer = <<>>

\* a call has returned geometry and left its engine objects behind
C12_Witness ==
    /\ IsRasterize
    /\ engine # None
    /\ ret # <<>>
    /\ Len(ret) >= 4

\* C13: the valid_range check comes first: when it fails no engine object exists and
\* the result is empty; when it passes, Setup, SetOutsideBounds, BeginBuilding,
\* SendGeometry and FlushTryGetVertexBuffer each run once, in that order, on the
\* objects just created, and the sink is drained last.
C13_StepsInOrder ==
    IsRasterize =>
        IF ~valid_range
        THEN engine = None /\ ret = <<>>
        ELSE /\ engine # None
             /\ engine[1].steps = <<"new", "Setup", "SetOutsideBounds", "BeginBuilding",
                                    "SendGeometry", "FlushTryGetVertexBuffer", "drain">>

\* an invalid path with outside bounds set was handed to the rasterizer
C13_Witness ==
    /\ IsRasterize
    /\ ~valid_range
    /\ outside_bounds # None
    /\ Len(points) >= 4

\* the positions of the front end: no start known, a start pending, segments under way
Empty == initial_point = None /\ ~in_shape
Started == initial_point # None /\ ~in_shape
InShape == initial_point # None /\ in_shape

Grows(n) == Len(points') = Len(points) + n /\ SubSeq(points', 1, Len(points)) = points

\* C14, as stated: the first move_to, line_to or curve_to on an empty builder leaves
\* a pending point and nothing drawn, and close() leaves a pending start point.
C14_AsStated ==
    [][/\ (Empty /\ call'.op \in {"move_to", "line_to", "curve_to"}) =>
              (Started' /\ points' = points /\ types' = types)
       /\ ((Started \/ InShape) /\ call'.op \in {"line_to", "curve_to", "quad_to"}) =>
              InShape'
       /\ call'.op = "close" => Started']_vars

\* C14, amended: from Empty, move_to and line_to lead to Started with nothing drawn,
\* while curve_to and quad_to draw at once and lead to InShape; from Started and
\* InShape the drawing calls lead to InShape and append their points (with the
\* pending start first, from Started); move_to leads to Started from anywhere;
\* close() leads to Empty, no start pending, and keeps the points; the other calls
\* do not move the builder.
C14_StateMachine ==
    [][/\ Empty' \/ Started' \/ InShape'
       /\ (Empty /\ call'.op \in {"move_to", "line_to"}) =>
              (Started' /\ points' = points /\ types' = types)
       /\ (Empty /\ call'.op \in {"curve_to", "quad_to"}) => (InShape' /\ Grows(4))
       /\ (Started /\ call'.op = "line_to") => (InShape' /\ Grows(2))
       /\ (Started /\ call'.op \in {"curve_to", "quad_to"}) => (InShape' /\ Grows(4))
       /\ (InShape /\ call'.op = "line_to") => (InShape' /\ Grows(1))
       /\ (InShape /\ call'.op \in {"curve_to", "quad_to"}) => (InShape' /\ Grows(3))
       /\ call'.op = "move_to" => (Started' /\ points' = points)
       /\ call'.op = "close" => (Empty' /\ points' = points)
       /\ call'.op \in {"set_fill_mode", "set_outside_bounds", "get_path",
                        "rasterize_to_tri_strip"} =>
              UNCHANGED <<initial_point, in_shape>>]_vars

\* close() has put a builder that holds a drawn path back in Empty
C14_Witness ==
    /\ call.op = "close"
    /\ Empty
    /\ Len(points) >= 2
    /\ IsClosed(types[Len(types)])

\* C15: the types array is well formed: if it is not empty its first entry is a
\* Start, and every Line or Bezier entry has a Start entry before it in the array.
C15_TypesWellFormed ==
    /\ types # <<>> => TypeTag(types[1]) = PathPointTypeStart
    /\ \A k \in DOMAIN types :
          TypeTag(types[k]) # PathPointTypeStart =>
              \E m \in 1 .. k - 1 : TypeTag(types[m]) = PathPointTypeStart

\* the entries of ts with tag t, the close flag ignored
CountTag(ts, t) == Cardinality({k \in DOMAIN ts : TypeTag(ts[k]) = t})

\* C16: len(points) = (number of Start entries) + (number of Line entries)
\* + 3 * (number of Bezier entries), and types holds no entry of another kind.
C16_PointsMatchTypes ==
    /\ Len(points) = CountTag(types, PathPointTypeStart)
                     + CountTag(types, PathPointTypeLine)
                     + 3 * CountTag(types, PathPointTypeBezier)
    /\ \A k \in DOMAIN types :
          TypeTag(types[k]) \in {PathPointTypeStart, PathPointTypeLine,
                                 PathPointTypeBezier}

\* a closed curve followed by a second subpath
C16_Witness ==
    /\ CountTag(types, PathPointTypeBezier) >= 1
    /\ CountTag(types, PathPointTypeStart) >= 2
    /\ \E k \in DOMAIN types : IsClosed(types[k])
    /\ Len(points) >= 6

\* the cubic control points of the quadratic (c0, (cx, cy), (x, y)): degree
\* elevation, each coordinate from the coordinates of its own axis
Elevated(c0, cx, cy, x, y) ==
    <<MilPoint2F(c0.X + TwoThirds(cx - c0.X), c0.Y + TwoThirds(cy - c0.Y)),
      MilPoint2F(x + TwoThirds(cx - x), y + TwoThirds(cy - y))>>

\* what curve_to(c[1], c[2], (x, y)) appends after the points ps
WithCurve(ps, c, x, y) ==
    ps \o <<Converted(c[1].X, c[1].Y), Converted(c[2].X, c[2].Y), Converted(x, y)>>

\* the end points of the segments a free session draws
SegmentEnds == Pts \cup {a[3] : a \in CurveArgs} \cup {a[2] : a \in QuadArgs}

\* C17: quad_to(cx, cy, x, y) appends what curve_to(c1, c2, (x, y)) appends, where
\* c1 = c0 + 2/3 ((cx, cy) - c0) and c2 = (x, y) + 2/3 ((cx, cy) - (x, y)),
\* componentwise, and c0 is the current point: the pending start when nothing is
\* drawn in the subpath, the end point of the last segment otherwise.
C17_QuadIsElevation ==
    [][call'.op = "quad_to" =>
         \E a \in QuadArgs :
            LET cx == a[1].X
                cy == a[1].Y
                x == a[2].X
                y == a[2].Y
            IN  /\ (initial_point # None /\ ~in_shape) =>
                       LET c0 == initial_point[1]
                       IN  /\ points' = WithCurve(Append(points, Converted(c0.X, c0.Y)),
                                                  Elevated(c0, cx, cy, x, y), x, y)
                           /\ types' = types \o <<PathPointTypeStart, PathPointTypeBezier>>
                /\ (in_shape /\ points # <<>>) =>
                       \E c0 \in SegmentEnds :
                          /\ Converted(c0.X, c0.Y) = points[Len(points)]
                          /\ points' = WithCurve(points, Elevated(c0, cx, cy, x, y), x, y)
                          /\ types' = Append(types, PathPointTypeBezier)]_vars

\* C18: get_path returns Some exactly when valid_range holds and points and types
\* are both non-empty; the path returned carries the builder's fill mode and all
\* its points and types, and leaves points and types empty, so that a get_path
\* right after it returns None and a rasterize_to_tri_strip right after it
\* rasterizes the empty path; when get_path returns None the builder is unchanged.
C18_GetPath ==
    [][/\ call'.op = "get_path" =>
             /\ ret' # None <=> (valid_range /\ points # <<>> /\ types # <<>>)
             /\ ret' # None =>
                    /\ ret' = Some([fill_mode |-> fill_mode, points |-> points,
                                    types |-> types])
                    /\ points' = <<>>
                    /\ types' = <<>>
             /\ ret' = None => UNCHANGED bvars
       /\ (IsGetPath /\ ret # None /\ call'.op = "get_path") => ret' = None
       /\ (IsGetPath /\ ret # None /\ call'.op = "rasterize_to_tri_strip") =>
             ret' = SendGeometry(MilFillMode(fill_mode), <<>>, <<>>,
                                 engine'[1].clipRect, engine'[1].outside_bounds,
                                 need_inside)]_vars

\* get_path has handed out a Winding path with a drawn segment
C18_Witness ==
    /\ IsGetPath
    /\ ret # None
    /\ ret[1].fill_mode = Winding
    /\ Len(ret[1].points) >= 2
    /\ points = <<>>
    /\ types = <<>>

\* the points the step has appended
AppendedPoints ==
    IF Len(points') > Len(points)
    THEN {points'[i] : i \in Len(points) + 1 .. Len(points')}
    ELSE {}

\* C19: valid_range is a one-way latch: it starts true, a step makes it false
\* exactly when it appends an out-of-range point, and once false it stays false
\* under every call; while it is false rasterize_to_tri_strip returns the empty
\* array and get_path returns None.
C19_ValidRangeLatch ==
    /\ valid_range = TRUE
    /\ [][/\ ~valid_range => ~valid_range'
          /\ valid_range' = (valid_range /\ \A p \in AppendedPoints : PointInRange(p))
          /\ (~valid_range' /\ call'.op = "rasterize_to_tri_strip") => ret' = <<>>
          /\ (~valid_range' /\ call'.op = "get_path") =>
                 (ret' = None /\ UNCHANGED <<points, types>>)]_vars

\* after an out-of-range point and an in-range point after it, get_path has
\* returned None
C19_Witness ==
    /\ IsGetPath
    /\ ~valid_range
    /\ ret = None
    /\ BadPointInPath
    /\ PointInRange(points[Len(points)])

\* C20: the close-subpath flag is only on an entry that ends a subpath: a flagged
\* entry is a Line or a Bezier entry, never a Start, and it is the last entry of
\* types or the entry after it is a Start; and close() called right after close()
\* leaves types as the first call left it.
C20_CloseFlagEndsSubpath ==
    /\ [](\A k \in DOMAIN types :
             IsClosed(types[k]) =>
                 /\ TypeTag(types[k]) \in {PathPointTypeLine, PathPointTypeBezier}
                 /\ k = Len(types) \/ TypeTag(types[k + 1]) = PathPointTypeStart)
    /\ [][(call.op = "close" /\ call'.op = "close") => types' = types]_vars

\* close() has closed the last subpath of a path whose first subpath is closed too
C20_Witness ==
    /\ call.op = "close"
    /\ Len(types) >= 3
    /\ IsClosed(types[Len(types)])
    /\ \E k \in 1 .. Len(types) - 1 : IsClosed(types[k])

\* the path and the drawing state of the builder
path == <<points, types, initial_point, in_shape, valid_range>>

\* the configuration of the builder
config == <<fill_mode, outside_bounds, need_inside>>

\* the call the test body makes next
NextScripted(op) == script # None /\ script[1] # <<>> /\ Head(script[1]).op = op

\* C21: a new builder has fill mode EvenOdd, no outside bounds and need_inside
\* true; set_fill_mode stores its argument in fill_mode and set_outside_bounds
\* stores its arguments in outside_bounds and need_inside, and each leaves every
\* other field alone; no other call changes the configuration; and
\* rasterize_to_tri_strip hands the engine the fill mode, outside bounds and
\* need_inside the builder holds at the call, with the whole path.
C21_Configuration ==
    /\ (fill_mode = EvenOdd /\ outside_bounds = None /\ need_inside = TRUE)
    /\ [][/\ call'.op = "set_fill_mode" =>
                 /\ UNCHANGED <<path, outside_bounds, need_inside>>
                 /\ fill_mode' \in {EvenOdd, Winding}
          /\ NextScripted("set_fill_mode") => fill_mode' = Head(script[1]).a[1]
          /\ call'.op = "set_outside_bounds" => UNCHANGED <<path, fill_mode>>
          /\ NextScripted("set_outside_bounds") =>
                 LET a == Head(script[1]).a
                 IN  /\ outside_bounds' =
                            Some(CMILSurfaceRect(a[1][1][1], a[1][1][2], a[1][1][3],
                                                 a[1][1][4]))
                     /\ need_inside' = a[2]
          /\ call'.op \notin {"set_fill_mode", "set_outside_bounds"} => UNCHANGED config
          /\ (call'.op = "rasterize_to_tri_strip" /\ valid_range) =>
                 LET c == call'.args
                     r == EffectiveRect(outside_bounds, c[1], c[2], c[3], c[4])
                     e == engine'[1]
                 IN  /\ e.fill_mode = MilFillMode(fill_mode)
                     /\ e.need_inside = need_inside
                     /\ e.outside_bounds =
                            VertexBuilderBounds(r.x, r.y, r.width, r.height,
                                                outside_bounds # None)
                     /\ ret' = SendGeometry(e.fill_mode, types, points, e.clipRect,
                                            e.outside_bounds, e.need_inside)]_vars

\* a path rasterized as Winding under outside bounds set with need_inside false
C21_Witness ==
    /\ IsRasterize
    /\ fill_mode = Winding
    /\ outside_bounds # None
    /\ ~need_inside
    /\ Len(points) >= 2
    /\ ret # <<>>

==========================================================================
